---------------------------- MODULE Spec2Model ----------------------------
(***************************************************************************)
(* Model of the per-fork index tracker of the resolver                     *)
(* (crates/uv-resolver/src/fork_indexes.rs) and of the layer set-up of     *)
(* crates/uv/src/logging.rs.                                               *)
(*                                                                         *)
(* Three specifications share the variables:                               *)
(*   Spec        one tracker, created empty, driven by insert and get;     *)
(*   SpecForks   two trackers (a fork and a second one created empty or    *)
(*               by clone), driven by insert and get on either;            *)
(*   SpecLogging setup_logging applied to every combination of inputs.     *)
(***************************************************************************)
EXTENDS Integers, Sequences, FiniteSets, TLC

VARIABLES
    trackers,   \* tracker id -> ForkIndexes (the FxHashMap: a function on its keys)
    last,       \* the most recent call and what it returned
    lastOk,     \* history: package -> Option of the index of its latest Ok insert
    accepted,   \* history: package -> set of indexes whose insert returned Ok
    hist,       \* history (SpecForks): tracker id -> how created, own insert calls
    logging     \* setup_logging: inputs, program position, installed layers

vars == <<trackers, last, lastOk, accepted, hist, logging>>

---------------------------------------------------------------------------
(* Bounds and value sets *)

NumIndexes == 2

PackageName == {"foo", "bar"}

IndexUrl == 1..NumIndexes

MarkerTree == {"python_version < '3.9'", "sys_platform == 'linux'"}

ForkId == {"root", "child"}

\* Option<T>: <<>> is None, <<v>> is Some(v).
None == <<>>

Some(v) == <<v>>

\* ResolverMarkers: Universal { .. } | SpecificEnvironment(_) | Fork(markers)
ResolverMarkers ==
    {[kind |-> "Universal"], [kind |-> "SpecificEnvironment"]}
        \cup {[kind |-> "Fork", markers |-> m] : m \in MarkerTree}

---------------------------------------------------------------------------
(* Strings: sequences of character codes, ordered as Rust orders String *)

\* "https://"
SchemePrefix == <<104, 116, 116, 112, 115, 58, 47, 47>>

\* ".example"
HostSuffix == <<46, 101, 120, 97, 109, 112, 108, 101>>

\* The host label of index i over the letters a, b: a, b, aa, ab, ba, ...
RECURSIVE HostLabel(_)
HostLabel(i) ==
    IF i = 0 THEN <<>>
    ELSE LET d == ((i - 1) % 2) + 1
         IN HostLabel((i - d) \div 2) \o <<96 + d>>

\* IndexUrl's Display: the location text of the index.
to_string(i) == SchemePrefix \o HostLabel(i) \o HostSuffix

\* s < t in the lexicographic (byte-wise) order of String.
StrLess(s, t) ==
    \E k \in 1..(Len(t)) :
        /\ \A j \in 1..(k - 1) : j <= Len(s) /\ s[j] = t[j]
        /\ \/ k > Len(s)
           \/ k <= Len(s) /\ s[k] < t[k]

\* Vec::push into a sorted vector at its ordered place (insertion step of sort).
RECURSIVE InsertSorted(_, _)
InsertSorted(v, s) ==
    IF v = <<>> THEN <<s>>
    ELSE IF StrLess(s, Head(v)) THEN <<s>> \o v
    ELSE <<Head(v)>> \o InsertSorted(Tail(v), s)

\* Vec<String>::sort, ascending.
RECURSIVE sort(_)
sort(v) == IF v = <<>> THEN <<>> ELSE InsertSorted(sort(Tail(v)), Head(v))

---------------------------------------------------------------------------
(* FxHashMap<PackageName, IndexUrl> and ForkIndexes *)

\* ForkIndexes::default(): the empty map.
ForkIndexes_default == [p \in {} |-> 0]

\* HashMap::get
HashMap_get(m, k) == IF k \in DOMAIN m THEN Some(m[k]) ELSE None

\* HashMap::insert that drops the other entries of the map.
HashMap_insert_Clearing(m, k, v) ==
    [map |-> [q \in {k} |-> v], previous |-> HashMap_get(m, k)]

\* HashMap::insert: writes the entry unconditionally; returns the map it leaves
\* and the value the key held before.
HashMap_insert(m, k, v) ==
    [map |-> [q \in (DOMAIN m) \cup {k} |-> IF q = k THEN v ELSE m[q]],
     previous |-> HashMap_get(m, k)]

\* A get that finds nothing.
ForkIndexes_get_Blind(self, package_name) == None

\* ForkIndexes::get
ForkIndexes_get(self, package_name) == HashMap_get(self, package_name)

Ok == <<"Ok">>

Err(e) == <<"Err", e>>

\* The match with the Fork arm building the universal error.
ConflictError_NoForkArm(package_name, conflicts, fork_markers) ==
    [kind |-> "ConflictingIndexesUniversal",
     package_name |-> package_name,
     indexes |-> conflicts]

\* The error of a conflict, by the shape of the fork identity (the match).
ConflictError(package_name, conflicts, fork_markers) ==
    IF fork_markers.kind \in {"Universal", "SpecificEnvironment"}
    THEN [kind |-> "ConflictingIndexesUniversal",
          package_name |-> package_name,
          indexes |-> conflicts]
    ELSE [kind |-> "ConflictingIndexesFork",
          package_name |-> package_name,
          indexes |-> conflicts,
          fork_markers |-> fork_markers.markers]

\* insert with the comparison inverted (previous == index).
ForkIndexes_insert_Inverted(self, package_name, index, fork_markers) ==
    LET w == HashMap_insert(self, package_name, index)
    IN  IF w.previous # None /\ w.previous[1] = index
        THEN [self |-> w.map,
              result |-> Err(ConflictError(package_name,
                             sort(<<to_string(w.previous[1]), to_string(index)>>),
                             fork_markers))]
        ELSE [self |-> w.map, result |-> Ok]

\* insert without the comparison: any earlier entry is a conflict.
ForkIndexes_insert_AnyPrevious(self, package_name, index, fork_markers) ==
    LET w == HashMap_insert(self, package_name, index)
    IN  IF w.previous # None
        THEN [self |-> w.map,
              result |-> Err(ConflictError(package_name,
                             sort(<<to_string(w.previous[1]), to_string(index)>>),
                             fork_markers))]
        ELSE [self |-> w.map, result |-> Ok]

\* insert without conflicts.sort().
ForkIndexes_insert_Unsorted(self, package_name, index, fork_markers) ==
    LET w == HashMap_insert(self, package_name, index)
    IN  IF w.previous # None /\ w.previous[1] # index
        THEN [self |-> w.map,
              result |-> Err(ConflictError(package_name,
                             <<to_string(w.previous[1]), to_string(index)>>,
                             fork_markers))]
        ELSE [self |-> w.map, result |-> Ok]

\* ForkIndexes::insert: the tracker it leaves and the Result it returns.
ForkIndexes_insert(self, package_name, index, fork_markers) ==
    LET w == HashMap_insert(self, package_name, index)
    IN  IF w.previous # None /\ w.previous[1] # index
        THEN [self |-> w.map,
              result |-> Err(ConflictError(package_name,
                             sort(<<to_string(w.previous[1]), to_string(index)>>),
                             fork_markers))]
        ELSE [self |-> w.map, result |-> Ok]

---------------------------------------------------------------------------
(* Calls on trackers *)

\* An insert on a map that all trackers share.
InsertStep_Shared(t, p, x, fm) ==
    LET r == ForkIndexes_insert(trackers[t], p, x, fm)
    IN  /\ trackers' = [u \in DOMAIN trackers |-> r.self]
        /\ last' = [op |-> "insert", tracker |-> t, package_name |-> p,
                    index |-> x, fork_markers |-> fm,
                    previous |-> ForkIndexes_get(trackers[t], p),
                    result |-> r.result]

InsertStep(t, p, x, fm) ==
    LET r == ForkIndexes_insert(trackers[t], p, x, fm)
    IN  /\ trackers' = [trackers EXCEPT ![t] = r.self]
        /\ last' = [op |-> "insert", tracker |-> t, package_name |-> p,
                    index |-> x, fork_markers |-> fm,
                    previous |-> ForkIndexes_get(trackers[t], p),
                    result |-> r.result]

GetStep(t, p) ==
    /\ last' = [op |-> "get", tracker |-> t, package_name |-> p,
                value |-> ForkIndexes_get(trackers[t], p)]
    /\ UNCHANGED trackers

LoggingOff == [pc |-> "off"]

HistInit == [t \in {"root"} |-> [origin |-> "default", called |-> {}]]

TrackerInit ==
    /\ trackers = [t \in {"root"} |-> ForkIndexes_default]
    /\ last = [op |-> "default", tracker |-> "root"]
    /\ lastOk = [p \in PackageName |-> None]
    /\ accepted = [p \in PackageName |-> {}]
    /\ hist = HistInit

Init == TrackerInit /\ logging = LoggingOff

(* Spec: one tracker *)

Insert(p, x, fm) ==
    /\ InsertStep("root", p, x, fm)
    /\ LET ok == last'.result = Ok
       IN  /\ lastOk' = IF ok THEN [lastOk EXCEPT ![p] = Some(x)] ELSE lastOk
           /\ accepted' = IF ok THEN [accepted EXCEPT ![p] = @ \cup {x}] ELSE accepted
    /\ UNCHANGED <<hist, logging>>

Get(p) ==
    /\ GetStep("root", p)
    /\ UNCHANGED <<lastOk, accepted, hist, logging>>

Next ==
    \/ \E p \in PackageName, x \in IndexUrl, fm \in ResolverMarkers : Insert(p, x, fm)
    \/ \E p \in PackageName : Get(p)

Spec == Init /\ [][Next]_vars

---------------------------------------------------------------------------
(* SpecForks: two trackers *)

\* #[derive(Clone)]: a copy of the map, owned by the new tracker.
ForkIndexes_clone(self) == [k \in DOMAIN self |-> self[k]]

\* A second tracker is created empty (#[derive(Default)]).
ForkDefault ==
    /\ "child" \notin DOMAIN trackers
    /\ trackers' = [t \in ForkId |->
                       IF t = "child" THEN ForkIndexes_default ELSE trackers[t]]
    /\ hist' = [t \in ForkId |->
                   IF t = "child" THEN [origin |-> "default", called |-> {}]
                   ELSE hist[t]]
    /\ last' = [op |-> "default", tracker |-> "child"]
    /\ UNCHANGED <<lastOk, accepted, logging>>

\* A second tracker is created as a clone of the first (a fork split).
ForkClone ==
    /\ "child" \notin DOMAIN trackers
    /\ trackers' = [t \in ForkId |->
                       IF t = "child" THEN ForkIndexes_clone(trackers["root"])
                       ELSE trackers[t]]
    /\ hist' = [t \in ForkId |->
                   IF t = "child" THEN [origin |-> "clone", called |-> {}]
                   ELSE hist[t]]
    /\ last' = [op |-> "clone", tracker |-> "child", source |-> "root"]
    /\ UNCHANGED <<lastOk, accepted, logging>>

ForkInsert(t, p, x, fm) ==
    /\ t \in DOMAIN trackers
    /\ InsertStep(t, p, x, fm)
    /\ hist' = [hist EXCEPT ![t].called = @ \cup {p}]
    /\ UNCHANGED <<lastOk, accepted, logging>>

ForkGet(t, p) ==
    /\ t \in DOMAIN trackers
    /\ GetStep(t, p)
    /\ UNCHANGED <<lastOk, accepted, hist, logging>>

NextForks ==
    \/ ForkDefault
    \/ ForkClone
    \/ \E t \in ForkId, p \in PackageName, x \in IndexUrl, fm \in ResolverMarkers :
           ForkInsert(t, p, x, fm)
    \/ \E t \in ForkId, p \in PackageName : ForkGet(t, p)

SpecForks == Init /\ [][NextForks]_vars

---------------------------------------------------------------------------
(* Properties of one tracker (Spec) *)

\* The step just taken was the insert call that last' records.
InsertDone == last'.op = "insert"

\* The entry the tracker t held for package p before the step, read off the map.
Held(t, p) == p \in DOMAIN trackers[t]

\* C1: all insert calls for one package that return Ok carry the same index:
\* no package ever has two different indexes accepted by one tracker.
C1_OneAcceptedIndexPerPackage ==
    \A p \in PackageName : Cardinality(accepted[p]) <= 1

\* C2: a failed insert leaves the tracker unchanged: every get(P) returns the
\* index of the most recent successful insert for P, never a rejected candidate.
C2_GetReturnsLatestAccepted ==
    (last.op = "get" /\ lastOk[last.package_name] # None)
        => last.value = lastOk[last.package_name]

\* C3: insert(P, X) returns an error if and only if the tracker held an index
\* for P before the call and that index is not X; otherwise it returns Ok.
C3_ErrorIffDifferentPriorIndex ==
    [][InsertDone =>
          LET t == last'.tracker
              p == last'.package_name
              x == last'.index
              conflict == Held(t, p) /\ trackers[t][p] # x
          IN  /\ conflict => (last'.result # Ok /\ last'.result[1] = "Err")
              /\ ~conflict => last'.result = Ok]_vars

\* C3 witness: a second insert of the package, with another index, has failed.
C3_Witness ==
    /\ last.op = "insert"
    /\ last.previous # None
    /\ last.previous # Some(last.index)
    /\ last.result[1] = "Err"

\* C4: insert(P, A) on a tracker in which P is already recorded with A returns
\* Ok and leaves every package's recorded index as it was.
C4_InsertIdempotent ==
    [][InsertDone =>
          LET t == last'.tracker
              p == last'.package_name
          IN  (Held(t, p) /\ trackers[t][p] = last'.index)
                  => (last'.result = Ok /\ trackers' = trackers)]_vars

\* C4 witness: the same (package, index) pair has been inserted again, with Ok,
\* while another package is recorded too.
C4_Witness ==
    /\ last.op = "insert"
    /\ last.previous = Some(last.index)
    /\ last.result = Ok
    /\ DOMAIN trackers[last.tracker] = PackageName

\* C5: a conflict error carries the package name and exactly two index strings,
\* the previously recorded index and the candidate, in ascending lexicographic
\* order, whichever of the two was inserted first.
C5_ConflictListsBothSorted ==
    [][(InsertDone /\ last'.result # Ok) =>
          LET t == last'.tracker
              p == last'.package_name
              e == last'.result[2]
              a == to_string(trackers[t][p])
              b == to_string(last'.index)
          IN  /\ e.package_name = p
              /\ e.indexes \in {<<a, b>>, <<b, a>>}
              /\ ~StrLess(e.indexes[2], e.indexes[1])
              /\ \A fm \in ResolverMarkers :
                     ForkIndexes_insert([q \in {p} |-> last'.index], p,
                                        trackers[t][p], fm).result[2].indexes
                         = e.indexes]_vars

\* C5 witness: a conflict whose candidate sorts before the recorded index, so
\* that the list is not in insertion order.
C5_Witness ==
    /\ last.op = "insert"
    /\ last.result # Ok
    /\ StrLess(to_string(last.index), to_string(last.previous[1]))
    /\ last.result[2].indexes = <<to_string(last.index), to_string(last.previous[1])>>

\* C6: the kind of the conflict error follows the fork identity of the call:
\* Universal and SpecificEnvironment give ConflictingIndexesUniversal, without
\* markers; Fork(markers) gives ConflictingIndexesFork with these markers.
C6_ErrorKindFollowsForkIdentity ==
    (last.op = "insert" /\ last.result # Ok) =>
        LET fm == last.fork_markers
            e == last.result[2]
        IN  /\ fm.kind \in {"Universal", "SpecificEnvironment"} =>
                  /\ e.kind = "ConflictingIndexesUniversal"
                  /\ "fork_markers" \notin DOMAIN e
            /\ fm.kind = "Fork" =>
                  /\ e.kind = "ConflictingIndexesFork"
                  /\ e.fork_markers = fm.markers

\* C6 witness: a conflict under a Fork identity.
C6_Witness ==
    /\ last.op = "insert"
    /\ last.result # Ok
    /\ last.fork_markers.kind = "Fork"
    /\ last.result[2].kind = "ConflictingIndexesFork"

\* C10: insert(P, X) only touches the entry of P: every other package reads
\* the same after as before, whether the insert returns Ok or an error; and a
\* recorded package is never removed, P being recorded after any insert for P.
C10_InsertFrame ==
    [][/\ \A t \in DOMAIN trackers : \A q \in DOMAIN trackers[t] :
              q \in DOMAIN trackers'[t]
       /\ InsertDone =>
              LET t == last'.tracker
                  p == last'.package_name
              IN  /\ p \in DOMAIN trackers'[t]
                  /\ \A q \in PackageName \ {p} :
                         /\ q \in DOMAIN trackers'[t] <=> q \in DOMAIN trackers[t]
                         /\ q \in DOMAIN trackers[t] =>
                                trackers'[t][q] = trackers[t][q]]_vars

\* C10 witness: an insert has failed while another package is recorded.
C10_Witness ==
    /\ last.op = "insert"
    /\ last.result # Ok
    /\ \E q \in PackageName \ {last.package_name} : q \in DOMAIN trackers[last.tracker]

---------------------------------------------------------------------------
(* Properties of two trackers (SpecForks) *)

\* C7: trackers are isolated: an insert on one tracker never changes the other
\* tracker's map, and whether it conflicts is decided by its own map alone; a
\* get changes no tracker, and a clone leaves its source as it was.
C7_TrackersIsolated ==
    [][/\ InsertDone =>
              LET t == last'.tracker
                  p == last'.package_name
              IN  /\ \A u \in DOMAIN trackers \ {t} : trackers'[u] = trackers[u]
                  /\ last'.result # Ok
                         <=> (Held(t, p) /\ trackers[t][p] # last'.index)
       /\ last'.op \in {"get", "clone", "default"} =>
              \A u \in DOMAIN trackers : trackers'[u] = trackers[u]]_vars

\* C7 witness: a package recorded with one index in the first tracker has been
\* inserted with another index, with Ok, in a second tracker created empty.
C7_Witness ==
    /\ "child" \in DOMAIN trackers
    /\ hist["child"].origin = "default"
    /\ last.op = "insert"
    /\ last.tracker = "child"
    /\ last.result = Ok
    /\ last.package_name \in DOMAIN trackers["root"]
    /\ trackers["root"][last.package_name] # last.index
    /\ trackers["child"][last.package_name] = last.index

\* Steps of lookup consistency that hold of every tracker: an Ok insert(P, A)
\* leaves P recorded with A; no other step changes what is recorded for P; a
\* get returns what is recorded and changes no tracker.
LookupSteps ==
    /\ (InsertDone /\ last'.result = Ok) =>
           /\ last'.package_name \in DOMAIN trackers'[last'.tracker]
           /\ trackers'[last'.tracker][last'.package_name] = last'.index
    /\ \A t \in DOMAIN trackers : \A p \in PackageName :
           ~(InsertDone /\ last'.tracker = t /\ last'.package_name = p) =>
               /\ p \in DOMAIN trackers'[t] <=> p \in DOMAIN trackers[t]
               /\ p \in DOMAIN trackers[t] => trackers'[t][p] = trackers[t][p]
    /\ last'.op = "get" =>
           /\ trackers' = trackers
           /\ last'.value =
                  IF last'.package_name \in DOMAIN trackers[last'.tracker]
                  THEN Some(trackers[last'.tracker][last'.package_name])
                  ELSE None

\* C8 as stated: after an Ok insert(P, A), get(P) returns A until the next
\* insert for P; get of a package for which insert was never called on this
\* tracker returns none; get never changes the tracker.
C8_LookupConsistency_AsStated ==
    [][/\ LookupSteps
       /\ (last'.op = "get"
             /\ last'.package_name \notin hist[last'.tracker].called)
              => last'.value = None]_vars

\* C8 amended: as stated, the none case being that of a tracker created empty;
\* a tracker created by clone starts with the entries of its source.
C8_LookupConsistency ==
    [][/\ LookupSteps
       /\ (last'.op = "get"
             /\ hist[last'.tracker].origin = "default"
             /\ last'.package_name \notin hist[last'.tracker].called)
              => last'.value = None
       /\ last'.op = "clone" =>
              trackers'[last'.tracker] = trackers[last'.source]]_vars

\* C8 witness: a get has returned the index of an earlier Ok insert, and the
\* other package, never inserted in this tracker created empty, is not held.
C8_Witness ==
    /\ last.op = "get"
    /\ hist[last.tracker].origin = "default"
    /\ last.package_name \in hist[last.tracker].called
    /\ last.value # None
    /\ \E q \in PackageName :
           q \notin hist[last.tracker].called /\ q \notin DOMAIN trackers[last.tracker]

---------------------------------------------------------------------------
(* setup_logging (SpecLogging) *)

Level == {"Default", "Verbose", "ExtraVerbose"}

ColorChoice == {"Auto", "Always", "Never"}

\* What anstream reports for stderr: never Auto.
StderrChoice == {"Always", "Never"}

\* --log <path>: a path with or without an extension.
LogPath == {[stem |-> "test", extension |-> None],
            [stem |-> "uv", extension |-> Some("txt")]}

\* PathBuf::set_extension
set_extension(path, ext) == [path EXCEPT !.extension = Some(ext)]

\* ColorChoice::and_colorchoice: an explicit choice stands, Auto takes the next.
and_colorchoice(color, next) == IF color = "Auto" THEN next ELSE color

\* let ansi = match color.and_colorchoice(..) { Always => true, Never => false, .. }
Ansi(color, stderr_choice) == and_colorchoice(color, stderr_choice) = "Always"

\* let default_directive = match level { .. }
DefaultDirective(level) == IF level = "Default" THEN "off" ELSE "uv=debug"

\* EnvFilter::builder().with_default_directive(..).from_env()
ConsoleFilter(level) ==
    [from_env |-> TRUE, default_directive |-> DefaultDirective(level)]

\* let file_filter_str = match file_log_level { .. }; EnvFilter::try_new(..)
FileFilter(file_log_level) ==
    [from_env |-> FALSE,
     directives |-> CASE file_log_level = "Default" -> "uv=off"
                      [] file_log_level = "Verbose" -> "uv=debug"
                      [] file_log_level = "ExtraVerbose" -> "uv=trace"]

UvFormat(display_timestamp, display_level, show_spans) ==
    [display_timestamp |-> display_timestamp,
     display_level |-> display_level,
     show_spans |-> show_spans]

\* tracing_subscriber::fmt::layer().event_format(..).with_writer(..).with_ansi(..)
\*     .with_filter(..)
FmtLayer(format, writer, ansi, filter) ==
    [layer |-> "fmt", event_format |-> format, writer |-> writer,
     ansi |-> ansi, filter |-> filter]

\* HierarchicalLayer::default()[.with_targets(..).with_timer(..)].with_writer(..)
\*     .with_ansi(..).with_filter(..)
HierarchicalLayer(targets, timer, writer, ansi, filter) ==
    [layer |-> "HierarchicalLayer", targets |-> targets, timer |-> timer,
     writer |-> writer, ansi |-> ansi, filter |-> filter]

Stderr == [kind |-> "stderr"]

LogFile(path) == [kind |-> "file", path |-> path]

\* let console_layer = match level { .. }
ConsoleLayer(level, ansi) ==
    IF level \in {"Default", "Verbose"}
    THEN FmtLayer(UvFormat(FALSE, TRUE, FALSE), Stderr, ansi, ConsoleFilter(level))
    ELSE HierarchicalLayer(TRUE, "Uptime", Stderr, ansi, ConsoleFilter(level))

\* match file_log_level { .. } inside `if let Some(path) = log_path`
FileLayer(file_log_level, path) ==
    IF file_log_level \in {"Default", "Verbose"}
    THEN FmtLayer(UvFormat(FALSE, TRUE, TRUE), LogFile(set_extension(path, "log")),
                  FALSE, FileFilter(file_log_level))
    ELSE HierarchicalLayer(FALSE, "default", LogFile(set_extension(path, "log")),
                           FALSE, FileFilter(file_log_level))

\* setup_logging with the file layer taking the place of the console layer.
setup_logging_FileReplacesConsole(level, color, stderr_choice, log_path, file_log_level, rust_log_valid, open_ok) ==
    IF ~rust_log_valid
    THEN [layers |-> <<>>, ret |-> Err("Invalid RUST_LOG directives")]
    ELSE IF log_path = None
    THEN [layers |-> <<ConsoleLayer(level, Ansi(color, stderr_choice))>>, ret |-> Ok]
    ELSE IF ~open_ok
    THEN [layers |-> <<>>, ret |-> Err("Failed to open or create log file")]
    ELSE [layers |-> <<FileLayer(file_log_level, log_path[1])>>, ret |-> Ok]

\* setup_logging: the layers handed to init() and the Result returned.
\* rust_log_valid: RUST_LOG parses; open_ok: the log file can be opened.
setup_logging(level, color, stderr_choice, log_path, file_log_level, rust_log_valid, open_ok) ==
    IF ~rust_log_valid
    THEN [layers |-> <<>>, ret |-> Err("Invalid RUST_LOG directives")]
    ELSE LET layers == <<ConsoleLayer(level, Ansi(color, stderr_choice))>>
         IN  IF log_path = None
             THEN [layers |-> layers, ret |-> Ok]
             ELSE IF ~open_ok
             THEN [layers |-> <<>>, ret |-> Err("Failed to open or create log file")]
             ELSE [layers |-> Append(layers, FileLayer(file_log_level, log_path[1])),
                   ret |-> Ok]

LoggingInputs ==
    [level : Level, color : ColorChoice, stderr_choice : StderrChoice,
     log_path : {None} \cup {Some(path) : path \in LogPath},
     file_log_level : Level, rust_log_valid : BOOLEAN, open_ok : BOOLEAN]

InitLogging ==
    /\ TrackerInit
    /\ \E in \in LoggingInputs :
           logging = [pc |-> "start", in |-> in, layers |-> <<>>, ret |-> None]

SetupLogging ==
    /\ logging.pc = "start"
    /\ LET in == logging.in
           out == setup_logging(in.level, in.color, in.stderr_choice, in.log_path,
                                in.file_log_level, in.rust_log_valid, in.open_ok)
       IN  logging' = [logging EXCEPT !.pc = "done", !.layers = out.layers,
                                      !.ret = Some(out.ret)]
    /\ UNCHANGED <<trackers, last, lastOk, accepted, hist>>

NextLogging == SetupLogging

SpecLogging == InitLogging /\ [][NextLogging]_vars

IsConsole(l) == l.writer.kind = "stderr"

IsFile(l) == l.writer.kind = "file"

\* The console and file layers as the claim describes them, for the inputs of
\* the run: one stderr layer formatted by level alone, the same layer a run
\* without a log path gets, and a file layer exactly when a log path is given.
LayersAsClaimed ==
    LET in == logging.in
        console == SelectSeq(logging.layers, IsConsole)
        file == SelectSeq(logging.layers, IsFile)
    IN  /\ Len(console) = 1
        /\ in.level \in {"Default", "Verbose"} =>
               /\ console[1].layer = "fmt"
               /\ console[1].event_format =
                      [display_timestamp |-> FALSE, display_level |-> TRUE,
                       show_spans |-> FALSE]
        /\ in.level = "ExtraVerbose" =>
               /\ console[1].layer = "HierarchicalLayer"
               /\ console[1].targets
               /\ console[1].timer = "Uptime"
        /\ \A p \in LoggingInputs :
               (p.level = in.level /\ p.color = in.color
                  /\ p.stderr_choice = in.stderr_choice
                  /\ p.rust_log_valid /\ p.log_path = None) =>
                   setup_logging(p.level, p.color, p.stderr_choice, p.log_path,
                                 p.file_log_level, p.rust_log_valid, p.open_ok).layers
                       = console
        /\ Len(file) = (IF in.log_path = None THEN 0 ELSE 1)
        /\ Len(logging.layers) = Len(console) + Len(file)

===========================================================================
